---- MODULE Spec2Model ----
(***************************************************************************)
(* A model of src/models/llm.h: the RingBuffer of recently evaluated       *)
(* tokens and the LLM session (Init, BatchEval, EvalInternal, Sample,      *)
(* Reset) that owns one.                                                   *)
(*                                                                         *)
(* Two specifications share the variables:                                 *)
(*   SpecRB  a RingBuffer driven through its own public interface          *)
(*           (Init, Add, GetRecent, Clear);                                *)
(*   Spec    an LLM session driven through its public interface, with the  *)
(*           loop of BatchEval taken one iteration at a time.              *)
(* C++ vectors are 0-based; the sequences here are 1-based, so the C++     *)
(* element v[i] is v[i + 1] below.                                         *)
(***************************************************************************)
EXTENDS Integers, Sequences, FiniteSets, TLC

\* ---------------------------------------------------------------- bounds
\* Largest RingBuffer capacity tried in SpecRB (capacities are 1..MaxCap).
MaxCap == 3
\* Largest context length a loaded model reports (n_ctx is in 1..MaxCtx).
MaxCtx == 2
\* Largest number of Add calls since the last Init/Clear/Reset.
MaxAdds == 4
\* Longest token sequence handed to BatchEval.
MaxLen == 3
\* Largest batch_size handed to BatchEval (batch sizes are 1..MaxBatch).
MaxBatch == 2
\* Load may be invoked up to MaxLoads + 1 times.
MaxLoads == 1
\* Largest |n| handed to GetRecent (n ranges over -MaxN..MaxN).
MaxN == 4

\* ------------------------------------------------------------ input sets
\* gpt_vocab::id values used as tokens.
TokenIds == {0, 1}
\* Values an uninitialised int member may hold.
Indeterminate == {-1, 0, 2}
\* std::thread::hardware_concurrency() of the machine (0 = not computable).
HardwareConcurrency == 8
\* The threads arguments tried.
ThreadChoices == {-1, 2}

Min(a, b) == IF a < b THEN a ELSE b

\* All sequences over S of length 0..n.
SeqsUpTo(S, n) == UNION {[1..k -> S] : k \in 0..n}

\* The last n elements of s (all of s when it is shorter; none when n <= 0).
LastN(s, n) ==
  IF n <= 0 THEN <<>>
  ELSE IF Len(s) <= n THEN s ELSE SubSeq(s, Len(s) - n + 1, Len(s))

\* The elements of the C++ iterator range [v.begin() + a, v.begin() + b).
IterRange(v, a, b) == {v[i + 1] : i \in a..(b - 1)}

\* ------------------------------------------------------------ RingBuffer
\* A RingBuffer object: [capacity_, tokens_, pos_].

\* RingBuffer::Size
Size(rb) == Len(rb.tokens_)

\* A Clear that forgets to rewind the cursor.
Clear_KeepsCursor(rb) == [rb EXCEPT !.tokens_ = <<>>]

\* A Clear that rewinds the cursor and keeps the tokens.
Clear_KeepsTokens(rb) == [rb EXCEPT !.pos_ = 0]

\* RingBuffer::Clear
Clear(rb) == [rb EXCEPT !.tokens_ = <<>>, !.pos_ = 0]

\* An Init that clears but does not store the capacity.
RingBufferInit_NoCapacity(rb, capacity) == Clear(rb)

\* RingBuffer::Init
RingBufferInit(rb, capacity) == Clear([rb EXCEPT !.capacity_ = capacity])

\* Add that always appends (the overwrite branch lost).
Add_AlwaysAppend(rb, token) ==
  [rb EXCEPT !.tokens_ = Append(@, token),
             !.pos_ = (rb.pos_ + 1) % rb.capacity_]

\* Add that leaves the cursor where it is when it overwrote.
Add_OverwriteNoAdvance(rb, token) ==
  IF Size(rb) < rb.capacity_
    THEN [rb EXCEPT !.tokens_ = Append(@, token),
                    !.pos_ = (rb.pos_ + 1) % rb.capacity_]
    ELSE [rb EXCEPT !.tokens_ = [@ EXCEPT ![rb.pos_ + 1] = token]]

\* Add that advances the cursor only when it overwrote.
Add_CursorStuck(rb, token) ==
  IF Size(rb) < rb.capacity_
    THEN [rb EXCEPT !.tokens_ = Append(@, token)]
    ELSE [rb EXCEPT !.tokens_ = [@ EXCEPT ![rb.pos_ + 1] = token],
                    !.pos_ = (rb.pos_ + 1) % rb.capacity_]

\* RingBuffer::Add (capacity_ >= 1)
Add(rb, token) ==
  [rb EXCEPT
     !.tokens_ = IF Size(rb) < rb.capacity_
                   THEN Append(@, token)
                   ELSE [@ EXCEPT ![rb.pos_ + 1] = token],
     !.pos_ = (rb.pos_ + 1) % rb.capacity_]

\* GetRecent is defined unless it divides by zero: size == 0 and, after
\* n = min(size, n), n != 0, that is n < 0.
GetRecentDefined(rb, n0) == ~(Size(rb) = 0 /\ n0 < 0)

\* GetRecent whose wrapped case forgets the head run [0, pos_).
GetRecent_NoHeadRun(rb, n0) ==
  LET size == Size(rb)
      n == Min(size, n0)
  IN IF n = 0 THEN {}
     ELSE LET start == (rb.pos_ - n + size) % size
          IN IF start < rb.pos_
               THEN IterRange(rb.tokens_, start, rb.pos_)
               ELSE IterRange(rb.tokens_, start, size)

\* RingBuffer::GetRecent, where it is defined.
GetRecent(rb, n0) ==
  LET size == Size(rb)
      n == Min(size, n0)
  IN IF n = 0 THEN {}
     ELSE LET start == (rb.pos_ - n + size) % size
          IN IF start < rb.pos_
               THEN IterRange(rb.tokens_, start, rb.pos_)
               ELSE IterRange(rb.tokens_, start, size)
                      \cup IterRange(rb.tokens_, 0, rb.pos_)

\* The tokens a RingBuffer holds, oldest first.
Logical(rb) ==
  IF Size(rb) < rb.capacity_ \/ rb.pos_ = 0
    THEN rb.tokens_
    ELSE SubSeq(rb.tokens_, rb.pos_ + 1, Size(rb))
           \o SubSeq(rb.tokens_, 1, rb.pos_)

\* ------------------------------------------------------------ vocabulary
\* gpt_vocab: token_to_id, id_to_token, special_tokens.
EmptyVocab ==
  [token_to_id |-> [t \in {} |-> 0],
   id_to_token |-> [i \in {} |-> ""],
   special_tokens |-> {}]

\* The vocabularies a successful model load may produce.
VocabChoices ==
  {[token_to_id |-> ("a" :> 0) @@ ("<|endoftext|>" :> 1),
    id_to_token |-> (0 :> "a") @@ (1 :> "<|endoftext|>"),
    special_tokens |-> {}],
   [token_to_id |-> ("a" :> 0) @@ ("### End" :> 1),
    id_to_token |-> (0 :> "a") @@ (1 :> "### End"),
    special_tokens |-> {"### End"}]}

\* The logits vectors a model evaluation may leave in logits_.
LogitsOut == {<<2, 3>>}

\* The arguments of Sample tried. The floats are written as integers:
\* top_p 1 is 1.0f, temperature 0 and 1 are 0.0f and 1.0f, repetition_penalty
\* 1 and 2 are 1.0f and 2.0f.
\* Greedy decoding (temperature 0) is tried with top_k 1, stochastic
\* decoding with top_k 2.
SampleArgs ==
  {a \in [top_k : {1, 2}, top_p : {1}, temperature : {0, 1},
          repetition_penalty : {1, 2}, last_n_tokens : {-1, 1},
          seed : {-1, 3}] :
     (a.top_k = 1) <=> (a.temperature = 0)}

\* The arguments of a Sample that has not been called.
NoArgs ==
  [top_k |-> 1, top_p |-> 1, temperature |-> 0, repetition_penalty |-> 1,
   last_n_tokens |-> 0, seed |-> 0]

\* The values time(nullptr) may return.
TimeChoices == {5, 6}

\* A RingBuffer object nothing was stored in yet.
BlankBuffer == [capacity_ |-> 0, tokens_ |-> <<>>, pos_ |-> 0]

VARIABLES
  initialized_,      \* LLM::initialized_
  n_ctx_,            \* LLM::n_ctx_
  vocab_,            \* LLM::vocab_
  logits_,           \* LLM::logits_
  previous_tokens_,  \* LLM::previous_tokens_ (in SpecRB: the RingBuffer)
  pc,                \* "idle", or "loop" inside BatchEval's for loop
  tokens,            \* BatchEval's argument tokens
  batch_size,        \* BatchEval's argument batch_size
  threads,           \* BatchEval's argument threads
  start,             \* BatchEval's loop variable
  evals,             \* the Eval invocations of the current/last BatchEval
  buf0,              \* previous_tokens_ when the current/last BatchEval began
  loadCalls,         \* number of Load invocations so far
  window,            \* the last capacity_ tokens added since Init/Clear, oldest first
  adds,              \* number of Add calls since the last Init/Clear
  lastOp,            \* the public operation that ran last
  ret,               \* the bool the last Init/BatchEval returned (FALSE
                     \* while none has)
  arg_n,             \* the n the last GetRecent was called with
  recent,            \* the set the last GetRecent returned (Sample: the set
                     \* handed to the sampler)
  sampled,           \* the token id the last Sample returned
  params,            \* the arguments of the last Sample
  rng_seed,          \* the seed of the std::mt19937 the last Sample
                     \* constructed, -1 when it constructed none
  queried,           \* the last Sample called previous_tokens_.GetRecent
  arg_token,         \* the token the last IsEosToken was called with
  isEos,             \* the bool the last IsEosToken returned
  fresh,             \* a RingBuffer Init'ed with capacity_ when
                     \* previous_tokens_ was last Init'ed/Cleared, and given
                     \* the same Adds since
  afterReset,        \* "no", or what the last Reset cleared ("empty": no
                     \* token, "dropped": some) while at most one BatchEval
                     \* was entered since; for a RingBuffer on its own,
                     \* what the last Clear since its Init cleared
  ub                 \* the last operation executed undefined behaviour

vars == <<initialized_, n_ctx_, vocab_, logits_, previous_tokens_, pc, tokens,
          batch_size, threads, start, evals, buf0, loadCalls, window, adds,
          lastOp, ret, arg_n, recent, sampled, params, rng_seed, queried,
          arg_token, isEos, fresh, afterReset, ub>>

session == <<initialized_, n_ctx_, vocab_, logits_>>
frame == <<pc, tokens, batch_size, threads, start, evals, buf0>>
\* What the last Sample / IsEosToken was given and returned.
sampling == <<sampled, params, rng_seed, queried, arg_token, isEos>>

\* ------------------------------------------------------ RingBuffer alone
\* A RingBuffer after construction and Init(C), C in 1..MaxCap.
InitRB ==
  /\ initialized_ = FALSE
  /\ n_ctx_ = -1
  /\ vocab_ = EmptyVocab
  /\ logits_ = <<>>
  /\ \E c0 \in Indeterminate, C \in 1..MaxCap :
       previous_tokens_ =
         RingBufferInit([capacity_ |-> c0, tokens_ |-> <<>>, pos_ |-> 0], C)
  /\ pc = "idle"
  /\ tokens = <<>>
  /\ batch_size = 1
  /\ threads = 1
  /\ start = 0
  /\ evals = <<>>
  /\ buf0 = previous_tokens_
  /\ loadCalls = 0
  /\ window = <<>>
  /\ adds = 0
  /\ lastOp = "RingBuffer::Init"
  /\ ret = TRUE
  /\ arg_n = 0
  /\ recent = {}
  /\ sampled = 0
  /\ params = NoArgs
  /\ rng_seed = -1
  /\ queried = FALSE
  /\ arg_token = 0
  /\ isEos = FALSE
  /\ fresh = previous_tokens_
  /\ afterReset = "no"
  /\ ub = FALSE

\* rb.Init(C)
CallRingBufferInit ==
  \E C \in 1..MaxCap :
    /\ previous_tokens_' = RingBufferInit(previous_tokens_, C)
    /\ window' = <<>>
    /\ adds' = 0
    /\ lastOp' = "RingBuffer::Init"
    /\ ub' = FALSE
    /\ buf0' = previous_tokens_'
    /\ fresh' = RingBufferInit(BlankBuffer, C)
    /\ afterReset' = "no"
    /\ UNCHANGED <<session, pc, tokens, batch_size, threads, start, evals,
                   loadCalls, ret, arg_n, recent, sampling>>

\* rb.Add(token)
CallAdd ==
  \E token \in TokenIds :
    /\ adds < MaxAdds
    /\ previous_tokens_' = Add(previous_tokens_, token)
    /\ window' = LastN(Append(window, token), previous_tokens_.capacity_)
    /\ adds' = adds + 1
    /\ fresh' = Add(fresh, token)
    /\ lastOp' = "Add"
    /\ ub' = FALSE
    /\ UNCHANGED <<session, frame, loadCalls, ret, arg_n, recent, sampling,
                   afterReset>>

\* rb.GetRecent(n)
CallGetRecent ==
  \E n \in (-MaxN)..MaxN :
    /\ arg_n' = n
    /\ IF GetRecentDefined(previous_tokens_, n)
         THEN /\ recent' = GetRecent(previous_tokens_, n)
              /\ ub' = FALSE
         ELSE /\ recent' \in SUBSET TokenIds
              /\ ub' = TRUE
    /\ lastOp' = "GetRecent"
    /\ UNCHANGED <<session, previous_tokens_, frame, loadCalls, window, adds,
                   ret, sampling, fresh, afterReset>>

\* rb.Clear()
CallClear ==
  /\ previous_tokens_' = Clear(previous_tokens_)
  /\ window' = <<>>
  /\ adds' = 0
  /\ fresh' = RingBufferInit(BlankBuffer, previous_tokens_.capacity_)
  /\ afterReset' = IF Size(previous_tokens_) = 0 THEN "empty" ELSE "dropped"
  /\ lastOp' = "Clear"
  /\ ub' = FALSE
  /\ UNCHANGED <<session, frame, loadCalls, ret, arg_n, recent, sampling>>

NextRB == CallRingBufferInit \/ CallAdd \/ CallGetRecent \/ CallClear

SpecRB == InitRB /\ [][NextRB]_vars

\* ------------------------------------------------------------ LLM session
\* LLM::ContextLength
ContextLength == n_ctx_

\* LLM::VocabSize
VocabSize == Cardinality(DOMAIN vocab_.id_to_token)

\* An EosToken that looks the wrong word up.
EosToken_WrongWord ==
  IF "### End" \in DOMAIN vocab_.token_to_id
    THEN vocab_.token_to_id["### End"]
    ELSE 0

\* LLM::EosToken
EosToken ==
  IF "<|endoftext|>" \in DOMAIN vocab_.token_to_id
    THEN vocab_.token_to_id["<|endoftext|>"]
    ELSE 0

\* LLM::kEmptyString
kEmptyString == ""

\* LLM::Detokenize
Detokenize(id) ==
  IF id \in DOMAIN vocab_.id_to_token
    THEN vocab_.id_to_token[id]
    ELSE kEmptyString

\* An IsEosToken that compares with "### End" whatever special_tokens holds.
IsEosToken_NoSpecialCheck(token) ==
  token = EosToken \/ Detokenize(token) = "### End"

\* LLM::IsEosToken
IsEosToken(token) ==
  IF token = EosToken
    THEN TRUE
    ELSE IF vocab_.special_tokens # {}
           THEN Detokenize(token) = "### End"
           ELSE FALSE

\* The call frame of BatchEval once it has returned or was never entered.
NoFrame ==
  /\ pc' = "idle"
  /\ tokens' = <<>>
  /\ batch_size' = 1
  /\ threads' = 1
  /\ start' = 0
  /\ evals' = <<>>
  /\ buf0' = previous_tokens_'

\* No GetRecent or Sample result is pending: the operation returns none.
NoResults ==
  /\ arg_n' = 0
  /\ recent' = {}
  /\ sampled' = 0
  /\ params' = NoArgs
  /\ rng_seed' = -1
  /\ queried' = FALSE
  /\ arg_token' = 0
  /\ isEos' = FALSE

\* afterReset after an operation other than Reset: once a BatchEval was
\* entered since the Reset, the next operation is no longer "after Reset".
AfterResetNext == IF lastOp = "BatchEval" THEN "no" ELSE afterReset

\* A session after construction: the members' default initialisers; the
\* RingBuffer's capacity_ has none.
Init ==
  /\ initialized_ = FALSE
  /\ n_ctx_ = -1
  /\ vocab_ = EmptyVocab
  /\ logits_ = <<>>
  /\ \E c0 \in Indeterminate :
       previous_tokens_ = [capacity_ |-> c0, tokens_ |-> <<>>, pos_ |-> 0]
  /\ pc = "idle"
  /\ tokens = <<>>
  /\ batch_size = 1
  /\ threads = 1
  /\ start = 0
  /\ evals = <<>>
  /\ buf0 = previous_tokens_
  /\ loadCalls = 0
  /\ window = <<>>
  /\ adds = 0
  /\ lastOp = "new"
  /\ ret = FALSE
  /\ arg_n = 0
  /\ recent = {}
  /\ sampled = 0
  /\ params = NoArgs
  /\ rng_seed = -1
  /\ queried = FALSE
  /\ arg_token = 0
  /\ isEos = FALSE
  /\ fresh = previous_tokens_
  /\ afterReset = "no"
  /\ ub = FALSE

\* An Init guard that never fires.
AlreadyInitialized_Never == FALSE

\* LLM::Init, the guard `if (initialized_)`.
AlreadyInitialized == initialized_

\* LLM::Init on an initialised session: returns false.
InitAlready ==
  /\ pc = "idle"
  /\ AlreadyInitialized
  /\ lastOp' = "Init"
  /\ ret' = FALSE
  /\ ub' = FALSE
  /\ NoResults
  /\ afterReset' = AfterResetNext
  /\ UNCHANGED <<session, previous_tokens_, loadCalls, window, adds, fresh>>
  /\ NoFrame

\* LLM::Init when Load fails: the model loader returned false before n_ctx_
\* was set; it was handed vocab_ by reference and may have filled it.
InitLoadFails ==
  /\ pc = "idle"
  /\ ~AlreadyInitialized
  /\ loadCalls <= MaxLoads
  /\ loadCalls' = loadCalls + 1
  /\ vocab_' \in {vocab_} \cup VocabChoices
  /\ lastOp' = "Init"
  /\ ret' = FALSE
  /\ ub' = FALSE
  /\ NoResults
  /\ afterReset' = AfterResetNext
  /\ UNCHANGED <<initialized_, n_ctx_, logits_, previous_tokens_, window,
                 adds, fresh>>
  /\ NoFrame

\* LLM::Init when Load succeeds: n_ctx_ is the model's context length, the
\* RingBuffer is initialised with it and initialized_ is set.
InitLoadSucceeds ==
  /\ pc = "idle"
  /\ ~AlreadyInitialized
  /\ loadCalls <= MaxLoads
  /\ loadCalls' = loadCalls + 1
  /\ \E n \in 1..MaxCtx, v \in VocabChoices :
       /\ n_ctx_' = n
       /\ vocab_' = v
       /\ previous_tokens_' = RingBufferInit(previous_tokens_, n)
       /\ fresh' = RingBufferInit(BlankBuffer, n)
  /\ afterReset' = AfterResetNext
  /\ initialized_' = TRUE
  /\ window' = <<>>
  /\ adds' = 0
  /\ lastOp' = "Init"
  /\ ret' = TRUE
  /\ ub' = FALSE
  /\ NoResults
  /\ UNCHANGED logits_
  /\ NoFrame

\* EvalInternal, the resolution of a negative threads argument.
ResolveThreads(th) == IF th < 0 THEN Min(HardwareConcurrency, 4) ELSE th

\* n_past without the clamp to the context length.
NPast_NoClamp(batch) == Size(previous_tokens_)

\* n_past clamped one below the room the batch leaves.
NPast_OffByOne(batch) ==
  Min(ContextLength - Len(batch) - 1, Size(previous_tokens_))

\* EvalInternal, n_past for a batch.
NPast(batch) == Min(ContextLength - Len(batch), Size(previous_tokens_))

\* EvalInternal: the loop that adds every token of the batch, in order.
RECURSIVE AddAll(_, _)
AddAll(rb, batch) ==
  IF batch = <<>> THEN rb
  ELSE AddAll(Add(rb, Head(batch)), Tail(batch))

\* A buffer that receives the batch whatever Eval returned.
BufferAfterEval_Always(rb, batch, ok) == AddAll(rb, batch)

\* EvalInternal: the buffer after Eval returned ok.
BufferAfterEval(rb, batch, ok) == IF ok THEN AddAll(rb, batch) ELSE rb

\* A loop that steps by one token.
NextStart_ByOne(s, bs) == s + 1

\* A loop whose index does not move.
NextStart_Stuck(s, bs) == s

\* BatchEval: the loop's `start += batch_size`.
NextStart(s, bs) == s + bs

\* A BatchEval that ignores a failed EvalInternal.
StopsOnFailure_Never(ok) == FALSE

\* BatchEval: `if (!EvalInternal(batch, threads)) return false`.
StopsOnFailure(ok) == ~ok

\* threads reaches nothing but Eval's argument list, so each batch size is
\* tried with one threads value: the default (negative) with odd sizes, an
\* explicit count with even ones.
ThreadsTriedWith(bs, th) == (th < 0) <=> (bs % 2 = 1)

\* BatchEval is entered (on an initialised session: before Init the
\* RingBuffer's capacity_ is indeterminate and no model is loaded).
BatchEvalCall ==
  /\ pc = "idle"
  /\ initialized_
  /\ \E t \in SeqsUpTo(TokenIds, MaxLen), bs \in 1..MaxBatch,
        th \in ThreadChoices :
       /\ ThreadsTriedWith(bs, th)
       /\ adds + Len(t) <= MaxAdds
       /\ tokens' = t
       /\ batch_size' = bs
       /\ threads' = th
  /\ start' = 0
  /\ evals' = <<>>
  /\ buf0' = previous_tokens_
  /\ pc' = "loop"
  /\ lastOp' = "BatchEval"
  /\ ret' = FALSE
  /\ ub' = FALSE
  /\ NoResults
  /\ afterReset' = AfterResetNext
  /\ UNCHANGED <<session, previous_tokens_, loadCalls, window, adds, fresh>>

\* One iteration of BatchEval's loop: the batch is cut and handed to
\* EvalInternal, which calls Eval and, when it succeeded, adds the batch to
\* previous_tokens_. Eval writes logits_.
BatchEvalStep ==
  /\ pc = "loop"
  /\ start < Len(tokens)
  /\ LET end == Min(start + batch_size, Len(tokens))
         batch == SubSeq(tokens, start + 1, end)
     IN \E ok \in BOOLEAN :
          /\ evals' = Append(evals, [tokens |-> batch,
                                     threads |-> ResolveThreads(threads),
                                     n_past |-> NPast(batch),
                                     ok |-> ok])
          /\ logits_' \in (IF ok THEN {} ELSE {logits_}) \cup LogitsOut
          /\ previous_tokens_' = BufferAfterEval(previous_tokens_, batch, ok)
          /\ window' = IF ok
                         THEN LastN(window \o batch, previous_tokens_.capacity_)
                         ELSE window
          /\ adds' = IF ok THEN adds + Len(batch) ELSE adds
          /\ fresh' = IF ok THEN AddAll(fresh, batch) ELSE fresh
          /\ IF StopsOnFailure(ok)
               THEN /\ pc' = "idle"
                    /\ ret' = FALSE
                    /\ start' = start
               ELSE /\ pc' = "loop"
                    /\ ret' = ret
                    /\ start' = NextStart(start, batch_size)
  /\ UNCHANGED <<initialized_, n_ctx_, vocab_, tokens, batch_size, threads,
                 buf0, loadCalls, lastOp, arg_n, recent, sampling, afterReset,
                 ub>>

\* BatchEval's loop is over: return true.
BatchEvalReturn ==
  /\ pc = "loop"
  /\ start >= Len(tokens)
  /\ pc' = "idle"
  /\ ret' = TRUE
  /\ UNCHANGED <<session, previous_tokens_, tokens, batch_size, threads,
                 start, evals, buf0, loadCalls, window, adds, lastOp, arg_n,
                 recent, sampling, fresh, afterReset, ub>>

\* ---------------------------------------------------------------- sampler
\* gpt_sample_top_k_top_p is outside this file; this is the Sampler of the
\* design document on integer logits. lg[i + 1] is the logit of id i.

\* Step 1, the sign-aware repetition penalty, with every logit scaled by the
\* penalty p so that l / p stays an integer: a recent id's logit l becomes
\* l (that is p * l / p) when positive and l * p * p otherwise; any other
\* id's logit becomes l * p.
Penalised(lg, p, recent_tokens) ==
  [i \in 0..(Len(lg) - 1) |->
     LET l == lg[i + 1]
     IN IF p # 1 /\ i \in recent_tokens
          THEN (IF l > 0 THEN l ELSE l * p * p)
          ELSE l * p]

\* The number of ids ranked before id i: a larger logit first, the lower id
\* first among equal logits.
Rank(pl, i) ==
  Cardinality({j \in DOMAIN pl : pl[j] > pl[i] \/ (pl[j] = pl[i] /\ j < i)})

\* Steps 2 to 6: temperature <= 0 returns the arg-max; otherwise the top_k
\* ids are kept (top_p = 1.0 keeps them all) and the generator seeded with
\* seed draws one of them: which one is a function of the seed alone.
Sampler(vocab, lg, a, recent_tokens, seed) ==
  LET pl == Penalised(lg, a.repetition_penalty, recent_tokens)
      kept == {i \in DOMAIN pl : Rank(pl, i) < a.top_k}
      drawn == IF a.temperature <= 0 THEN 0 ELSE seed % Cardinality(kept)
  IN CHOOSE i \in kept : Rank(pl, i) = drawn

\* ----------------------------------------------------------------- Sample
\* Sample: `if (last_n_tokens < 0) last_n_tokens = ContextLength()`.
LastNTokens(a) ==
  IF a.last_n_tokens < 0 THEN ContextLength ELSE a.last_n_tokens

\* A Sample that builds the recent set whatever the penalty.
BuildsRecent_Always(a) == TRUE

\* Sample: `if (repetition_penalty != 1.0f)`.
BuildsRecent(a) == a.repetition_penalty # 1

\* Sample: logits_.data() + (logits_.size() - VocabSize()), the last
\* VocabSize() logits.
LogitsTail ==
  SubSeq(logits_, Len(logits_) - VocabSize + 1, Len(logits_))

\* Sample: recent_tokens, the set handed to the sampler, for the buffer rb.
RecentTokens(rb, a) ==
  IF BuildsRecent(a) THEN GetRecent(rb, LastNTokens(a)) ELSE {}

\* Sample: the token the sampler returns for the buffer rb and the generator
\* seeded with seed.
SampleToken(rb, a, seed) ==
  Sampler(vocab_, LogitsTail, a, RecentTokens(rb, a), seed)

\* LLM::Sample
Sample ==
  /\ pc = "idle"
  /\ \E a \in SampleArgs :
     \E now \in IF a.seed < 0 /\ logits_ # <<>> THEN TimeChoices ELSE {0} :
       /\ params' = a
       /\ IF logits_ = <<>>
            THEN /\ sampled' = EosToken
                 /\ rng_seed' = -1
                 /\ queried' = FALSE
                 /\ arg_n' = 0
                 /\ recent' = {}
            ELSE LET seed == IF a.seed < 0 THEN now ELSE a.seed
                 IN /\ rng_seed' = seed
                    /\ queried' = BuildsRecent(a)
                    /\ arg_n' = IF BuildsRecent(a) THEN LastNTokens(a) ELSE 0
                    /\ recent' = RecentTokens(previous_tokens_, a)
                    /\ sampled' = SampleToken(previous_tokens_, a, seed)
  /\ arg_token' = 0
  /\ isEos' = FALSE
  /\ lastOp' = "Sample"
  /\ ret' = FALSE
  /\ ub' = FALSE
  /\ afterReset' = AfterResetNext
  /\ UNCHANGED <<session, previous_tokens_, loadCalls, window, adds, fresh>>
  /\ NoFrame

\* A Reset that keeps logits_.
LogitsAfterReset_Kept == logits_

\* Reset: logits_.clear()
LogitsAfterReset == <<>>

\* LLM::Reset
Reset ==
  /\ pc = "idle"
  /\ logits_' = LogitsAfterReset
  /\ previous_tokens_' = Clear(previous_tokens_)
  /\ window' = <<>>
  /\ adds' = 0
  /\ fresh' = RingBufferInit(BlankBuffer, previous_tokens_.capacity_)
  /\ afterReset' = IF Size(previous_tokens_) = 0 THEN "empty" ELSE "dropped"
  /\ lastOp' = "Reset"
  /\ ret' = FALSE
  /\ ub' = FALSE
  /\ NoResults
  /\ UNCHANGED <<initialized_, n_ctx_, vocab_, loadCalls>>
  /\ NoFrame

Next ==
  \/ InitAlready
  \/ InitLoadFails
  \/ InitLoadSucceeds
  \/ BatchEvalCall
  \/ BatchEvalStep
  \/ BatchEvalReturn
  \/ Sample
  \/ Reset

Spec == Init /\ [][Next]_vars

\* The session when a BatchEval that was entered keeps running: every Eval
\* returns, so the loop takes its next iteration or its exit.
SpecFair ==
  /\ Init
  /\ [][Next]_vars
  /\ WF_vars(BatchEvalStep)
  /\ WF_vars(BatchEvalReturn)

\* ------------------------------------------------------------------
\* IsEosToken on its own: a session whose vocabulary is any of EosVocabs,
\* queried with the ids of IsEosTokenArgs.

\* The words a vocabulary entry may be.
EosWords == {"a", "<|endoftext|>", "### End"}

\* The sizes of the vocabularies tried.
EosVocabSizes == {2, 3}

\* The inverse of an injective id_to_token map.
Inverse(f) ==
  [w \in {f[i] : i \in DOMAIN f} |-> CHOOSE i \in DOMAIN f : f[i] = w]

\* Vocabularies: ids 0..n-1 carry distinct words, token_to_id is the inverse
\* map, special_tokens is any set of the two marker words.
EosVocabs ==
  UNION {
    {[token_to_id |-> Inverse(f), id_to_token |-> f, special_tokens |-> sp] :
       f \in {g \in [0..(n - 1) -> EosWords] :
                \A i, j \in 0..(n - 1) : g[i] = g[j] => i = j},
       sp \in SUBSET {"<|endoftext|>", "### End"}} :
    n \in EosVocabSizes}

\* The ids IsEosToken is called with; 3 is in no vocabulary.
IsEosTokenArgs == 0..3

InitEos ==
  /\ initialized_ = TRUE
  /\ n_ctx_ = 1
  /\ vocab_ \in EosVocabs
  /\ logits_ = <<>>
  /\ previous_tokens_ = RingBufferInit(BlankBuffer, 1)
  /\ pc = "idle"
  /\ tokens = <<>>
  /\ batch_size = 1
  /\ threads = 1
  /\ start = 0
  /\ evals = <<>>
  /\ buf0 = previous_tokens_
  /\ loadCalls = 1
  /\ window = <<>>
  /\ adds = 0
  /\ lastOp = "Init"
  /\ ret = TRUE
  /\ arg_n = 0
  /\ recent = {}
  /\ sampled = 0
  /\ params = NoArgs
  /\ rng_seed = -1
  /\ queried = FALSE
  /\ arg_token = 0
  /\ isEos = FALSE
  /\ fresh = previous_tokens_
  /\ afterReset = "no"
  /\ ub = FALSE

\* A call of LLM::IsEosToken; it is const and changes no member.
CallIsEosToken ==
  /\ \E token \in IsEosTokenArgs :
       /\ arg_token' = token
       /\ isEos' = IsEosToken(token)
  /\ lastOp' = "IsEosToken"
  /\ ret' = FALSE
  /\ UNCHANGED <<session, previous_tokens_, frame, loadCalls, window, adds,
                 arg_n, recent, sampled, params, rng_seed, queried, fresh,
                 afterReset, ub>>

NextEos == CallIsEosToken

SpecEos == InitEos /\ [][NextEos]_vars

\* ------------------------------------------------ properties: RingBuffer
\* C1. After GetRecent(n) with n >= 1, the result is exactly the set of ids
\* among the last min(Size(), n) tokens added, whether the buffer is
\* filling, exactly full or wrapped; an id whose occurrences all precede the
\* last capacity_ Adds is not among them.
C1_GetRecentIsLastN ==
  (lastOp = "GetRecent" /\ arg_n >= 1) =>
    LET k == Min(Size(previous_tokens_), arg_n)
    IN recent = {window[i] : i \in (Len(window) - k + 1)..Len(window)}

\* C1 witness: a wrapped buffer of capacity 3 with the cursor at 1 answers
\* GetRecent(2) from both runs, [2, 3) and [0, 1), with two distinct ids.
C1_Witness ==
  /\ lastOp = "GetRecent"
  /\ previous_tokens_.capacity_ = 3
  /\ adds > 3
  /\ previous_tokens_.pos_ = 1
  /\ arg_n = 2
  /\ Cardinality(recent) = 2

\* C2. Size() is min(number of Adds since the last Init/Clear, capacity), so
\* 0 <= Size() <= capacity, and only Init and Clear make Size() smaller.
C2_SizeIsMinAddsCapacity ==
  /\ [](/\ Size(previous_tokens_) = Min(adds, previous_tokens_.capacity_)
        /\ 0 <= Size(previous_tokens_)
        /\ Size(previous_tokens_) <= previous_tokens_.capacity_)
  /\ [][lastOp' \notin {"RingBuffer::Init", "Clear"}
          => Size(previous_tokens_') >= Size(previous_tokens_)]_vars

\* C2 witness: more Adds than the capacity, and the buffer holds capacity
\* tokens.
C2_Witness ==
  /\ lastOp = "Add"
  /\ previous_tokens_.capacity_ = 2
  /\ adds = 4
  /\ Size(previous_tokens_) = 2

\* C3, as claimed. GetRecent(n) returns the empty set, and does not fail,
\* whenever n <= 0 and whenever the buffer is empty.
C3_GetRecentEmptyWhenNonPositive ==
  (lastOp = "GetRecent" /\ (arg_n <= 0 \/ Size(previous_tokens_) = 0)) =>
    (recent = {} /\ ~ub)

\* --------------------------------------------------- properties: session
CeilDiv(a, b) == (a + b - 1) \div b

\* The j-th consecutive chunk (j = 1, 2, ...) of BatchEval's tokens.
Chunk(j) ==
  SubSeq(tokens, (j - 1) * batch_size + 1, Min(j * batch_size, Len(tokens)))

\* The batches of the Eval invocations es, concatenated in call order.
RECURSIVE ConcatBatches(_)
ConcatBatches(es) ==
  IF es = <<>> THEN <<>> ELSE Head(es).tokens \o ConcatBatches(Tail(es))

AllOk == \A i \in 1..Len(evals) : evals[i].ok

\* C4. A BatchEval whose evaluations all succeeded has returned success
\* after exactly ceil(L / batch_size) Eval invocations: all but the last on
\* batch_size tokens, the last on 1..batch_size tokens, and the batches in
\* call order concatenate to the input (no invocation when L = 0).
C4_BatchEvalChunks ==
  (pc = "idle" /\ lastOp = "BatchEval" /\ AllOk) =>
    /\ ret
    /\ Len(evals) = CeilDiv(Len(tokens), batch_size)
    /\ \A i \in 1..(Len(evals) - 1) : Len(evals[i].tokens) = batch_size
    /\ Len(evals) > 0 =>
         Len(evals[Len(evals)].tokens) \in 1..batch_size
    /\ ConcatBatches(evals) = tokens

\* C4 witness: three tokens in batches of two were evaluated as 2 + 1.
C4_Witness ==
  /\ pc = "idle"
  /\ lastOp = "BatchEval"
  /\ ret
  /\ Len(tokens) = 3
  /\ batch_size = 2
  /\ Len(evals) = 2
  /\ Len(evals[2].tokens) = 1

\* C5. Only the last Eval invocation of a BatchEval can have failed; when it
\* has, BatchEval has returned failure, the invocations were chunks 0..i in
\* order, and the buffer holds its prior contents followed by chunks 0..i-1
\* (cut to the capacity), nothing of chunk i or later.
C5_FirstFailureStops ==
  /\ \A i \in 1..(Len(evals) - 1) : evals[i].ok
  /\ (Len(evals) > 0 /\ ~evals[Len(evals)].ok) =>
       LET i == Len(evals)
       IN /\ pc = "idle"
          /\ lastOp = "BatchEval"
          /\ ret = FALSE
          /\ \A j \in 1..i : evals[j].tokens = Chunk(j)
          /\ previous_tokens_.capacity_ = buf0.capacity_
          /\ Logical(previous_tokens_) =
               LastN(Logical(buf0) \o SubSeq(tokens, 1, (i - 1) * batch_size),
                     buf0.capacity_)

\* C5 witness: the second chunk failed; the first one's token stays in the
\* buffer, after what was there.
C5_Witness ==
  /\ pc = "idle"
  /\ lastOp = "BatchEval"
  /\ ~ret
  /\ Len(evals) = 2
  /\ Len(tokens) = 3
  /\ Size(buf0) = 1
  /\ Size(previous_tokens_) = 2
  /\ previous_tokens_.tokens_[2] = tokens[1]
  /\ tokens[2] # tokens[1]

\* C6. A step in which Eval fails returns failure and leaves the buffer
\* (capacity_, tokens_, pos_) as it was; the buffer changes during a
\* BatchEval only in a step whose Eval succeeded, by that batch.
C6_FailedEvalLeavesBuffer ==
  [][/\ (Len(evals') = Len(evals) + 1 /\ ~evals'[Len(evals')].ok) =>
          (ret' = FALSE /\ previous_tokens_' = previous_tokens_)
     /\ (lastOp' = "BatchEval" /\ previous_tokens_' # previous_tokens_) =>
          /\ Len(evals') = Len(evals) + 1
          /\ evals'[Len(evals')].ok
          /\ Logical(previous_tokens_') =
               LastN(Logical(previous_tokens_) \o evals'[Len(evals')].tokens,
                     previous_tokens_.capacity_)]_vars

\* C6 witness: the only Eval of a BatchEval failed on a non-empty buffer,
\* which is what it was when BatchEval began.
C6_Witness ==
  /\ pc = "idle"
  /\ lastOp = "BatchEval"
  /\ ~ret
  /\ Len(evals) = 1
  /\ Size(buf0) > 0
  /\ previous_tokens_ = buf0

\* C7. The i-th Eval invocation of a BatchEval receives
\* n_past = min(n_ctx - batchLength, occupancy), the occupancy being that of
\* the buffer at BatchEval's start plus the i-1 chunks evaluated before it,
\* at most n_ctx; so n_past + batchLength <= n_ctx.
C7_NPastIsClampedOccupancy ==
  \A i \in 1..Len(evals) :
    LET e == evals[i]
        occupancy == Min(Size(buf0) + (i - 1) * batch_size, n_ctx_)
    IN /\ e.n_past = Min(n_ctx_ - Len(e.tokens), occupancy)
       /\ e.n_past + Len(e.tokens) <= n_ctx_

\* C7 witness: the third batch of a BatchEval on an empty buffer is told
\* fewer past tokens than the buffer holds (the clamp acts), the second more
\* than it held at the start.
C7_Witness ==
  /\ Len(evals) = 3
  /\ Size(buf0) = 0
  /\ evals[2].n_past > Size(buf0)
  /\ evals[3].n_past < Min(2 * batch_size, n_ctx_)

\* C8. After a successful BatchEval of T on an initialised session with
\* history H, the buffer's occupancy is min(|H| + |T|, n_ctx) and it holds
\* the last that many tokens of H followed by T, however T was split.
C8_BufferIsTailOfHistory ==
  (pc = "idle" /\ lastOp = "BatchEval" /\ ret) =>
    /\ Size(previous_tokens_) = Min(adds, n_ctx_)
    /\ Size(previous_tokens_) = Min(Size(buf0) + Len(tokens), n_ctx_)
    /\ Logical(previous_tokens_) = window
    /\ Logical(previous_tokens_) = LastN(Logical(buf0) \o tokens, n_ctx_)

\* C8 witness: two batches on a non-empty buffer wrapped it; the cursor is
\* inside and the two tokens kept differ.
C8_Witness ==
  /\ pc = "idle"
  /\ lastOp = "BatchEval"
  /\ ret
  /\ Len(evals) = 2
  /\ Size(buf0) > 0
  /\ n_ctx_ = 2
  /\ adds > n_ctx_
  /\ previous_tokens_.pos_ = 1
  /\ window[1] # window[2]

\* C9. An Init call on an initialised session returns failure, invokes no
\* Load and leaves initialized_, n_ctx_, vocab_, logits_ and the buffer as
\* they were.
C9_ReInitFailsUnchanged ==
  [][(initialized_ /\ lastOp' = "Init") =>
       /\ ret' = FALSE
       /\ loadCalls' = loadCalls
       /\ UNCHANGED <<initialized_, n_ctx_, vocab_, logits_,
                      previous_tokens_>>]_vars

\* C9 witness: a failed Init on an initialised session that has logits and
\* a non-empty buffer.
C9_Witness ==
  /\ lastOp = "Init"
  /\ ~ret
  /\ initialized_
  /\ loadCalls = 1
  /\ logits_ # <<>>
  /\ Size(previous_tokens_) > 0

\* C10, as claimed. Load is invoked at most once per session.
C10_LoadAtMostOnce == loadCalls <= 1

\* C10, amended. Every Load invocation is made by an Init call on a session
\* that is not initialised, one per call: none follows a successful Init.
C10_NoLoadOnceInitialized ==
  [][loadCalls' # loadCalls =>
       /\ ~initialized_
       /\ lastOp' = "Init"
       /\ loadCalls' = loadCalls + 1]_vars

\* C10 witness: Load was invoked twice (the first failed) and a later Init
\* on the initialised session invoked none.
C10_Witness ==
  /\ lastOp = "Init"
  /\ ~ret
  /\ initialized_
  /\ loadCalls = 2

\* ----------------------------------------------- properties: later claims
\* C11. A Sample on an empty logits_ (nothing evaluated yet, or nothing
\* since Reset) returns the end-of-sequence id whatever its arguments, and
\* neither constructs a random generator nor calls GetRecent.
C11_EmptyLogitsSampleIsEos ==
  (lastOp = "Sample" /\ logits_ = <<>>) =>
    /\ sampled = (IF "<|endoftext|>" \in DOMAIN vocab_.token_to_id
                    THEN vocab_.token_to_id["<|endoftext|>"]
                    ELSE 0)
    /\ rng_seed = -1
    /\ ~queried
    /\ recent = {}

\* C11 witness: after a Reset that dropped tokens, a Sample with a penalty,
\* a time-derived seed and the default last_n_tokens returned the id of
\* "<|endoftext|>".
C11_Witness ==
  /\ lastOp = "Sample"
  /\ logits_ = <<>>
  /\ afterReset = "dropped"
  /\ params.repetition_penalty = 2
  /\ params.seed = -1
  /\ params.last_n_tokens = -1
  /\ params.temperature = 1
  /\ sampled = 1

\* C12. A Reset step leaves logits_ empty and the buffer empty with the
\* cursor at 0; initialized_, n_ctx_, vocab_ and the buffer's capacity_ stay
\* as they were, Load is not invoked and no Eval invocation is made.
C12_ResetFrame ==
  [][lastOp' = "Reset" =>
       /\ logits_' = <<>>
       /\ previous_tokens_'.tokens_ = <<>>
       /\ previous_tokens_'.pos_ = 0
       /\ previous_tokens_'.capacity_ = previous_tokens_.capacity_
       /\ UNCHANGED <<initialized_, n_ctx_, vocab_>>
       /\ loadCalls' = loadCalls
       /\ evals' = <<>>
       /\ pc' = "idle"]_vars

\* C12 witness: a Reset of an initialised session that dropped tokens (so
\* there were logits): both are gone, the capacity is still n_ctx_ = 2.
C12_Witness ==
  /\ lastOp = "Reset"
  /\ afterReset = "dropped"
  /\ initialized_
  /\ logits_ = <<>>
  /\ previous_tokens_ = [capacity_ |-> 2, tokens_ |-> <<>>, pos_ |-> 0]
  /\ n_ctx_ = 2

\* The buffers a session with this n_ctx_ can hold.
SessionBuffers ==
  {AddAll(RingBufferInit(BlankBuffer, n_ctx_), h) :
     h \in SeqsUpTo(TokenIds, MaxAdds)}

\* C13. A Sample with repetition_penalty 1.0 does not call GetRecent and
\* hands the sampler the empty set; with seed >= 0 the token it returns is
\* the one a session with the same logits, vocabulary, arguments and seed
\* returns whatever its buffer holds.
C13_PenaltyOneIgnoresBuffer ==
  (lastOp = "Sample" /\ logits_ # <<>> /\ params.repetition_penalty = 1) =>
    /\ ~queried
    /\ recent = {}
    /\ params.seed >= 0 =>
         /\ rng_seed = params.seed
         /\ \A rb \in SessionBuffers :
              SampleToken(rb, params, params.seed) = sampled

\* C13 witness: a seeded Sample with penalty 1.0 on a buffer holding tokens
\* whose contents would have changed the token had the penalty been 2.0.
C13_Witness ==
  /\ lastOp = "Sample"
  /\ logits_ # <<>>
  /\ params.repetition_penalty = 1
  /\ params.seed = 3
  /\ Size(previous_tokens_) > 0
  /\ SampleToken(previous_tokens_, [params EXCEPT !.repetition_penalty = 2],
                 params.seed) # sampled

\* C14. IsEosToken(t) is true exactly when t is the canonical end-of-sequence
\* id (the id of "<|endoftext|>", or 0 when the vocabulary has no such word),
\* or the special-token set is non-empty and t detokenizes to "### End"; a
\* token other than the canonical id that detokenizes to "### End" is not an
\* end-of-sequence token when no special token is registered.
C14_IsEosTokenExactly ==
  lastOp = "IsEosToken" =>
    LET eos == IF "<|endoftext|>" \in DOMAIN vocab_.token_to_id
                 THEN vocab_.token_to_id["<|endoftext|>"]
                 ELSE 0
        isEnd == /\ arg_token \in DOMAIN vocab_.id_to_token
                 /\ vocab_.id_to_token[arg_token] = "### End"
    IN /\ isEos <=> (arg_token = eos \/ (vocab_.special_tokens # {} /\ isEnd))
       /\ (arg_token # eos /\ isEnd /\ vocab_.special_tokens = {}) => ~isEos

\* C14 witness: a token that is not the canonical id and detokenizes to
\* "### End" was asked about in a vocabulary with no special token.
C14_Witness ==
  /\ lastOp = "IsEosToken"
  /\ vocab_.special_tokens = {}
  /\ arg_token # EosToken
  /\ Detokenize(arg_token) = "### End"
  /\ ~isEos

\* C15. The cursor pos_ equals the number of Adds since the last Init or
\* Clear modulo the capacity: it equals Size while the buffer is filling, it
\* lies in 0..capacity-1 once the buffer is full, and every Add advances it
\* by one modulo the capacity.
C15_CursorIsAddsModCapacity ==
  /\ [](LET rb == previous_tokens_
        IN /\ rb.pos_ = adds % rb.capacity_
           /\ Size(rb) < rb.capacity_ => rb.pos_ = Size(rb)
           /\ Size(rb) = rb.capacity_ => rb.pos_ \in 0..(rb.capacity_ - 1))
  /\ [][lastOp' = "Add" =>
          previous_tokens_'.pos_ =
            (previous_tokens_.pos_ + 1) % previous_tokens_.capacity_]_vars

\* C15 witness: a full buffer of capacity at least 2 whose cursor has
\* wrapped and advanced again.
C15_Witness ==
  /\ lastOp = "Add"
  /\ previous_tokens_.capacity_ >= 2
  /\ Size(previous_tokens_) = previous_tokens_.capacity_
  /\ adds > previous_tokens_.capacity_
  /\ previous_tokens_.pos_ = 1

\* C16. Once Init has succeeded the RingBuffer's capacity equals n_ctx_;
\* right after the successful Init the buffer is empty with its cursor at 0;
\* and no later step (BatchEval, Sample, Reset, a refused Init) changes
\* n_ctx_ or the capacity.
C16_CapacityIsContextLength ==
  /\ [](initialized_ => previous_tokens_.capacity_ = n_ctx_)
  /\ []((lastOp = "Init" /\ ret) =>
          /\ Size(previous_tokens_) = 0
          /\ previous_tokens_.pos_ = 0)
  /\ [][initialized_ =>
          /\ n_ctx_' = n_ctx_
          /\ previous_tokens_'.capacity_ = previous_tokens_.capacity_]_vars

\* C16 witness: an initialised session that evaluated tokens and then had a
\* second Init refused.
C16_Witness ==
  /\ initialized_
  /\ lastOp = "Init"
  /\ ~ret
  /\ Size(previous_tokens_) > 0
  /\ n_ctx_ = MaxCtx
  /\ previous_tokens_.capacity_ = n_ctx_

\* C17. Clear puts the RingBuffer in the state of a newly Init'ed buffer of
\* the same capacity: Size 0, cursor 0, GetRecent(n) empty for every n >= 0;
\* and after any Adds that follow, the buffer and every GetRecent result are
\* those of a new buffer given the same Adds.
C17_ClearIsFreshInit ==
  /\ previous_tokens_ = fresh
  /\ lastOp = "Clear" =>
       /\ previous_tokens_ =
            RingBufferInit(BlankBuffer, previous_tokens_.capacity_)
       /\ Size(previous_tokens_) = 0
       /\ previous_tokens_.pos_ = 0
       /\ \A n \in 0..MaxN : GetRecent(previous_tokens_, n) = {}
  /\ (lastOp = "GetRecent" /\ ~ub) => recent = GetRecent(fresh, arg_n)

\* C17 witness: a buffer was Cleared while it held tokens, was then filled
\* past wrap-around, and a GetRecent of two or more tokens was answered.
C17_Witness ==
  /\ afterReset = "dropped"
  /\ lastOp = "GetRecent"
  /\ arg_n >= 2
  /\ previous_tokens_.capacity_ >= 2
  /\ adds > previous_tokens_.capacity_
  /\ Cardinality(recent) = 2

\* C18. On an initialised session every Eval of a BatchEval with
\* 1 <= batch_size <= n_ctx_ receives 0 <= n_past <= n_ctx_ - (length of its
\* batch), whatever BatchEvals and Resets came before; an Eval receives a
\* negative n_past only for a batch longer than n_ctx_.
C18_NPastNonNegative ==
  (initialized_ /\ n_ctx_ >= 1) =>
    \A i \in DOMAIN evals :
      LET e == evals[i]
      IN /\ (1 <= batch_size /\ batch_size <= n_ctx_) =>
              (0 <= e.n_past /\ e.n_past <= n_ctx_ - Len(e.tokens))
         /\ e.n_past < 0 => Len(e.tokens) > n_ctx_

\* C18 witness: after a Reset, on a buffer refilled to its capacity, an Eval
\* with batch_size <= n_ctx_ received the largest n_past the bound allows.
C18_Witness ==
  /\ initialized_
  /\ afterReset = "dropped"
  /\ batch_size <= n_ctx_
  /\ Size(previous_tokens_) = n_ctx_
  /\ \E i \in DOMAIN evals :
       /\ evals[i].n_past > 0
       /\ evals[i].n_past = n_ctx_ - Len(evals[i].tokens)

\* C18 witness of the other case: a batch longer than n_ctx_ was evaluated
\* with a negative n_past.
C18_NegativeReached ==
  \E i \in DOMAIN evals :
    evals[i].n_past < 0 /\ Len(evals[i].tokens) > n_ctx_

\* C19. In the first BatchEval after a Reset, the first Eval, when its batch
\* is no longer than n_ctx_, receives n_past = 0, however many tokens the
\* Reset dropped.
C19_FirstEvalAfterResetFromZero ==
  (lastOp = "BatchEval" /\ afterReset # "no" /\ evals # <<>>
     /\ Len(evals[1].tokens) <= n_ctx_) =>
    evals[1].n_past = 0

\* C19 witness: the Reset dropped tokens; the BatchEval after it started
\* from n_past 0 and its second Eval was told of the tokens of the first.
C19_Witness ==
  /\ lastOp = "BatchEval"
  /\ afterReset = "dropped"
  /\ Len(evals) >= 2
  /\ Len(evals[1].tokens) <= n_ctx_
  /\ evals[1].n_past = 0
  /\ evals[2].n_past > 0

\* C20. A BatchEval on L tokens with batch_size >= 1 returns, with success
\* or failure, after at most ceil(L / batch_size) iterations when every Eval
\* returns; every iteration that stays in the loop strictly increases start.
C20_BatchEvalTerminates ==
  /\ [](Len(evals) <= CeilDiv(Len(tokens), batch_size))
  /\ [][(pc = "loop" /\ pc' = "loop") => start' > start]_vars
  /\ (pc = "loop") ~> (pc = "idle")

\* C20 witness: a BatchEval on three tokens with batch_size 2 has returned
\* after its two iterations.
C20_Witness ==
  /\ pc = "idle"
  /\ lastOp = "BatchEval"
  /\ ret
  /\ Len(tokens) = 3
  /\ batch_size = 2
  /\ Len(evals) = CeilDiv(Len(tokens), batch_size)

====
